---- MODULE Spec2Model ----
(***************************************************************************)
(* A model of src/app.py: a Flask application with four GET routes, two    *)
(* registered error handlers and a __main__ block that reads PORT and      *)
(* DEBUG and starts the development server.                                *)
(*                                                                         *)
(* Text is a sequence of strings.  Text that the program parses, formats   *)
(* or escapes is spelled one character per element (<<"8","0">>); literal  *)
(* text of the source that is only copied is a single element              *)
(* (<<"healthy">>).                                                        *)
(***************************************************************************)
EXTENDS Integers, Sequences, FiniteSets, TLC

VARIABLES
    environ,    \* os.environ: PORT, ENVIRONMENT, DEBUG -> [set, val]
    hostname,   \* what socket.gethostname() returns on this machine
    now,        \* the wall clock, as a tick number (see DateTime)
    pc,         \* position of the __main__ block: "start", "listening", or the
                \* exception that ended it
    app,        \* what app.run was given, [host, port, debug], and the port bound
    th          \* the request threads of the server

vars == <<environ, hostname, now, pc, app, th>>

----------------------------------------------------------------------------
(* Bounds of the model.                                                    *)

\* The clock takes the values DateTime(0) .. DateTime(MaxTick).
MaxTick == 2

\* The request threads of Spec (one request in flight) and of SpecThreaded.
Threads == {1, 2}
OneThread == {1}

----------------------------------------------------------------------------
(* Text helpers.                                                           *)

Lit(s) == <<s>>

RECURSIVE Concat(_)
Concat(ss) == IF ss = <<>> THEN <<>> ELSE Head(ss) \o Concat(Tail(ss))

\* Whether text `part` occurs in text `s` as a contiguous run.
Contains(s, part) ==
    \E i \in 1..(Len(s) - Len(part) + 1) :
        SubSeq(s, i, i + Len(part) - 1) = part

DigitChars == <<"0", "1", "2", "3", "4", "5", "6", "7", "8", "9">>

DigitValue(c) == CHOOSE d \in 0..9 : DigitChars[d + 1] = c

IsDigit(c) == \E d \in 0..9 : DigitChars[d + 1] = c

\* n >= 0 in decimal, left-padded with zeros to at least w characters.
RECURSIVE Pad(_, _)
Pad(n, w) ==
    IF n < 10 /\ w <= 1 THEN <<DigitChars[n + 1]>>
    ELSE Pad(n \div 10, w - 1) \o <<DigitChars[(n % 10) + 1]>>

----------------------------------------------------------------------------
(* The Python and Flask library functions the program calls, modelled by   *)
(* what they do to the text they are given.                                *)

\* os.getenv(key, default)
getenv(key, default) ==
    IF environ[key].set THEN environ[key].val ELSE default

IsSpace(c) == c \in {" ", "\t", "\n"}

RECURSIVE LStrip(_)
LStrip(s) ==
    IF s # <<>> /\ IsSpace(Head(s)) THEN LStrip(Tail(s)) ELSE s

RECURSIVE RStrip(_)
RStrip(s) ==
    IF s # <<>> /\ IsSpace(s[Len(s)]) THEN RStrip(SubSeq(s, 1, Len(s) - 1))
    ELSE s

\* The value of a run of decimal digits.
RECURSIVE DecimalValue(_)
DecimalValue(ds) ==
    IF ds = <<>> THEN 0
    ELSE 10 * DecimalValue(SubSeq(ds, 1, Len(ds) - 1)) + DigitValue(ds[Len(ds)])

\* int(s) for a str: surrounding whitespace is dropped, one sign is allowed,
\* the rest is decimal digits, with single underscores allowed between
\* digits.  Anything else raises ValueError (ok = FALSE).
PyInt(s) ==
    LET t      == RStrip(LStrip(s))
        signed == t # <<>> /\ Head(t) \in {"+", "-"}
        body   == IF signed THEN Tail(t) ELSE t
        wellFormed ==
            /\ body # <<>>
            /\ IsDigit(body[1])
            /\ IsDigit(body[Len(body)])
            /\ \A i \in 1..Len(body) : IsDigit(body[i]) \/ body[i] = "_"
            /\ \A i \in 1..(Len(body) - 1) : ~(body[i] = "_" /\ body[i + 1] = "_")
        digits == SelectSeq(body, IsDigit)
        mag    == DecimalValue(digits)
    IN  IF wellFormed
        THEN [ok |-> TRUE, val |-> IF signed /\ Head(t) = "-" THEN 0 - mag ELSE mag]
        ELSE [ok |-> FALSE, val |-> 0]

UpperChars == <<"A", "B", "C", "D", "E", "F", "G", "H", "I", "J", "K", "L", "M",
                "N", "O", "P", "Q", "R", "S", "T", "U", "V", "W", "X", "Y", "Z">>
LowerChars == <<"a", "b", "c", "d", "e", "f", "g", "h", "i", "j", "k", "l", "m",
                "n", "o", "p", "q", "r", "s", "t", "u", "v", "w", "x", "y", "z">>

LowerChar(c) ==
    IF \E i \in 1..26 : UpperChars[i] = c
    THEN LowerChars[CHOOSE i \in 1..26 : UpperChars[i] = c]
    ELSE c

\* str.lower()
Lower(s) == [i \in 1..Len(s) |-> LowerChar(s[i])]

\* The wall clock at tick i, as datetime.now() returns it.  Even ticks fall
\* on a whole second (microsecond = 0).
DateTime(i) ==
    [year        |-> 2025,
     month       |-> 1 + ((i * 11) % 12),
     day         |-> 1 + ((i * 8) % 28),
     hour        |-> (i * 23) % 24,
     minute      |-> (i * 7) % 60,
     second      |-> (i * 59) % 60,
     microsecond |-> IF i % 2 = 0 THEN 0 ELSE (i * 1234) % 1000000]

\* datetime.strftime('%Y-%m-%d %H:%M:%S')
strftime(d) ==
    Concat(<<Pad(d.year, 4), <<"-">>, Pad(d.month, 2), <<"-">>, Pad(d.day, 2),
             <<" ">>,
             Pad(d.hour, 2), <<":">>, Pad(d.minute, 2), <<":">>, Pad(d.second, 2)>>)

\* datetime.isoformat(): 'T' separates date and time, and the fraction is
\* written, as six digits, only when microsecond is not 0.
isoformat(d) ==
    Concat(<<Pad(d.year, 4), <<"-">>, Pad(d.month, 2), <<"-">>, Pad(d.day, 2),
             <<"T">>,
             Pad(d.hour, 2), <<":">>, Pad(d.minute, 2), <<":">>, Pad(d.second, 2),
             IF d.microsecond = 0 THEN <<>> ELSE <<".">> \o Pad(d.microsecond, 6)>>)

\* markupsafe.escape, which Jinja applies to every {{ value }} of a template
\* rendered by render_template_string (autoescaping is on).
EscapeChar(c) ==
    CASE c = "&"  -> <<"&", "a", "m", "p", ";">>
      [] c = "<"  -> <<"&", "l", "t", ";">>
      [] c = ">"  -> <<"&", "g", "t", ";">>
      [] c = "'"  -> <<"&", "#", "3", "9", ";">>
      [] c = "\"" -> <<"&", "#", "3", "4", ";">>
      [] OTHER    -> <<c>>

RECURSIVE escape(_)
escape(s) == IF s = <<>> THEN <<>> ELSE EscapeChar(Head(s)) \o escape(Tail(s))

----------------------------------------------------------------------------
(* Responses.  A response is [status, mimetype, json, html]: json is the   *)
(* JSON object of a JSON response (a function from field names to values), *)
(* html is the text of an HTML response; the one that does not apply is    *)
(* empty.                                                                  *)

NoJson == [k \in {} |-> <<>>]

NoResponse == [status |-> 0, mimetype |-> "", json |-> NoJson, html |-> <<>>]

\* flask.jsonify(d), returned by a view together with a status code
jsonify(d, code) ==
    [status |-> code, mimetype |-> "application/json", json |-> d, html |-> <<>>]

HtmlResponse(text, code) ==
    [status |-> code, mimetype |-> "text/html", json |-> NoJson, html |-> text]

\* The status block of HTML_TEMPLATE: literal text and {{ name }} places.
Text(s) == [kind |-> "text", v |-> <<s>>]
Var(name) == [kind |-> "var", v |-> <<name>>]

ValueOpen == "<span class=\"value\">"
SpanClose == "</span>"
Label(s) == "<span class=\"label\">" \o s \o "</span>"

HTML_TEMPLATE ==
    << Text("<div class=\"status\">"),
       Text(Label("Status:")), Text(ValueOpen),
           Text("<span class=\"badge\">"), Text("RUNNING"), Text(SpanClose),
           Text(SpanClose),
       Text(Label("Hostname:")), Text(ValueOpen), Var("hostname"), Text(SpanClose),
       Text(Label("Server Time:")), Text(ValueOpen), Var("current_time"), Text(SpanClose),
       Text(Label("Port:")), Text(ValueOpen), Var("port"), Text(SpanClose),
       Text(Label("Environment:")), Text(ValueOpen), Var("environment"), Text(SpanClose),
       Text("</div>") >>

\* Jinja: text is copied, {{ name }} is replaced by the escaped value of name
\* in the context, and by nothing when the context has no such name.
RenderNode(node, context) ==
    IF node.kind = "text" THEN node.v
    ELSE IF node.v[1] \in DOMAIN context THEN escape(context[node.v[1]])
    ELSE <<>>

RECURSIVE render_template_string(_, _)
render_template_string(template, context) ==
    IF template = <<>> THEN <<>>
    ELSE RenderNode(Head(template), context)
             \o render_template_string(Tail(template), context)

----------------------------------------------------------------------------
(* The views and the error handlers of app.py.  h is the value             *)
(* socket.gethostname() returned to the request and c the value            *)
(* datetime.now() returned to it.                                          *)

PORT_DEFAULT == <<"5", "0", "0", "0">>
ENVIRONMENT_DEFAULT == <<"p", "r", "o", "d", "u", "c", "t", "i", "o", "n">>

\* os.sys.version of the interpreter that runs the program
sys_version == <<"3", ".", "1", "2">>

\* home reading the environment under the key ENV, which is never set.
home_env_key(h, c) ==
    HtmlResponse(
        render_template_string(
            HTML_TEMPLATE,
            [hostname     |-> h,
             current_time |-> strftime(c),
             port         |-> getenv("PORT", PORT_DEFAULT),
             environment  |-> ENVIRONMENT_DEFAULT]),
        200)

\* home writing the time the way the JSON views write it.
home_isoformat(h, c) ==
    HtmlResponse(
        render_template_string(
            HTML_TEMPLATE,
            [hostname     |-> h,
             current_time |-> isoformat(c),
             port         |-> getenv("PORT", PORT_DEFAULT),
             environment  |-> getenv("ENVIRONMENT", ENVIRONMENT_DEFAULT)]),
        200)

home(h, c) ==
    HtmlResponse(
        render_template_string(
            HTML_TEMPLATE,
            [hostname     |-> h,
             current_time |-> strftime(c),
             port         |-> getenv("PORT", PORT_DEFAULT),
             environment  |-> getenv("ENVIRONMENT", ENVIRONMENT_DEFAULT)]),
        200)

\* health with the timestamp written the way home writes the time.
health_strftime(c) ==
    jsonify([status    |-> Lit("healthy"),
             timestamp |-> strftime(c),
             service   |-> Lit("hng13-devops-stage1"),
             version   |-> Lit("1.0.0")],
            200)

health(c) ==
    jsonify([status    |-> Lit("healthy"),
             timestamp |-> isoformat(c),
             service   |-> Lit("hng13-devops-stage1"),
             version   |-> Lit("1.0.0")],
            200)

\* info without the interpreter's version.
info_without_version(h, c) ==
    jsonify([application    |-> Lit("HNG13 DevOps Stage 1"),
             hostname       |-> h,
             timestamp      |-> isoformat(c),
             port           |-> getenv("PORT", PORT_DEFAULT),
             environment    |-> getenv("ENVIRONMENT", ENVIRONMENT_DEFAULT),
             status         |-> Lit("running")],
            200)

info(h, c) ==
    jsonify([application    |-> Lit("HNG13 DevOps Stage 1"),
             hostname       |-> h,
             timestamp      |-> isoformat(c),
             port           |-> getenv("PORT", PORT_DEFAULT),
             environment    |-> getenv("ENVIRONMENT", ENVIRONMENT_DEFAULT),
             python_version |-> sys_version,
             status         |-> Lit("running")],
            200)

\* status with a timestamp added, as the other JSON views have one.
status_with_timestamp ==
    jsonify([status    |-> Lit("ok"),
             message   |-> Lit("Application is running successfully"),
             timestamp |-> isoformat(DateTime(now))],
            200)

status ==
    jsonify([status  |-> Lit("ok"),
             message |-> Lit("Application is running successfully")],
            200)

\* not_found returning the object alone: Flask then answers 200.
not_found_without_code ==
    jsonify([error   |-> Lit("Not Found"),
             message |-> Lit("The requested endpoint does not exist"),
             status  |-> 404],
            200)

not_found ==
    jsonify([error   |-> Lit("Not Found"),
             message |-> Lit("The requested endpoint does not exist"),
             status  |-> 404],
            404)

\* internal_error returning the object alone: Flask then answers 200.
internal_error_without_code ==
    jsonify([error   |-> Lit("Internal Server Error"),
             message |-> Lit("An unexpected error occurred"),
             status  |-> 500],
            200)

internal_error ==
    jsonify([error   |-> Lit("Internal Server Error"),
             message |-> Lit("An unexpected error occurred"),
             status  |-> 500],
            500)

----------------------------------------------------------------------------
(* Flask's routing and error handling, as app.py configures them.  A path  *)
(* is the sequence of its segments, the text after each of its slashes:    *)
(* "/" is <<"">>, "/api/health" is <<"api", "health">>, "/api/health/" is  *)
(* <<"api", "health", "">> and "/api//health" is <<"api", "", "health">>.  *)

\* The rules of app.url_map: the four @app.route rules, and the rule
\* /static/<path:filename> that Flask(__name__) adds for the static folder.
Match(path) ==
    CASE path = <<"">>                -> "home"
      [] path = <<"api", "health">>   -> "health"
      [] path = <<"api", "info">>     -> "info"
      [] path = <<"api", "status">>   -> "status"
      [] /\ Len(path) >= 2
         /\ path[1] = "static"
         /\ path[2] # ""              -> "static"
      [] OTHER                        -> ""

\* app.url_map merges repeated slashes (merge_slashes is on by default): a
\* path that matches no rule is tried again with its empty segments, but
\* for the last, dropped.
RECURSIVE MergeSlashes(_)
MergeSlashes(path) ==
    IF Len(path) <= 1 THEN path
    ELSE IF Head(path) = "" THEN MergeSlashes(Tail(path))
    ELSE <<Head(path)>> \o MergeSlashes(Tail(path))

\* Routes declared with methods=['GET', 'POST'].
RuleMethods_with_post == {"GET", "HEAD", "OPTIONS", "POST"}

\* @app.route without methods=: GET, to which Flask adds HEAD and OPTIONS.
RuleMethods == {"GET", "HEAD", "OPTIONS"}

\* The files of the static folder; the repository has none.
static_files == {}

\* werkzeug's own page for an HTTP error, or a redirect, that no handler is
\* registered for.
DefaultErrorPage(code) ==
    HtmlResponse(<<"<!doctype html>", "<title>">> \o Pad(code, 3) \o <<"</title>">>,
                 code)

\* The page of werkzeug's debugger, which answers when app.run(debug=True)
\* lets the exception of a view propagate out of the application.
DebuggerPage ==
    HtmlResponse(<<"<!doctype html>", "<title>", "OSError // Werkzeug Debugger",
                   "</title>">>, 500)

\* @app.errorhandler(404) and @app.errorhandler(500) are the registered
\* handlers; every other HTTP error is answered by its default page.
handle_http_exception(code) ==
    CASE code = 404 -> not_found
      [] code = 500 -> internal_error
      [] OTHER      -> DefaultErrorPage(code)

\* Flask.handle_exception for an exception that is no HTTP error: in debug
\* mode it is raised again, otherwise it is answered as a 500 error.
handle_exception(debug) ==
    IF debug THEN DebuggerPage ELSE handle_http_exception(500)

----------------------------------------------------------------------------
(* State.                                                                  *)

Unset == [set |-> FALSE, val |-> <<>>]
Set(text) == [set |-> TRUE, val |-> text]

PortValues ==
    { Unset,
      Set(<<"8", "0", "8", "0">>),
      Set(<<"0", "8", "0", "8", "0">>),
      Set(<<" ", "8", "0", "8", "0">>),
      Set(<<"a", "b", "c">>),
      Set(<<>>),
      Set(<<"0">>),
      Set(<<"7", "0", "0", "0", "0">>) }

EnvironmentValues ==
    { Unset,
      Set(<<"s", "t", "a", "g", "i", "n", "g">>),
      Set(<<>>),
      Set(<<"q", "&", "a">>) }

DebugValues ==
    { Unset,
      Set(<<"t", "r", "u", "e">>),
      Set(<<"T", "r", "u", "e">>),
      Set(<<"f", "a", "l", "s", "e">>),
      Set(<<"1">>) }

Hostnames == { <<"w", "e", "b", "-", "1">>, <<"d", "b">> }

Paths ==
    { <<"">>, <<"api", "health">>, <<"api", "info">>, <<"api", "status">>,
      <<"nonexistent">>, <<"api", "health", "">>, <<"api", "", "health">>,
      <<"static", "app.js">> }

Methods == {"GET", "HEAD", "OPTIONS", "POST"}

\* The ports the operating system may pick when asked to bind port 0.
EphemeralPorts == {32768, 60999}

\* A request thread: where it is (pc: "idle", at the call "gethostname" or
\* "now" of its view, at the "return" of its view, at the "raise" of an
\* exception, or "done" with its response), the request it serves, the
\* endpoint of the rule that matched, the hostname and the clock tick its
\* view has read, whether its view raised, whether an earlier request of
\* the thread raised, and the response.
Idle ==
    [pc |-> "idle", path |-> <<>>, method |-> "", endpoint |-> "",
     host |-> <<>>, clock |-> -1, exc |-> FALSE, afterFault |-> FALSE,
     resp |-> NoResponse]

Environments(ports, environments, debugs) ==
    { [PORT |-> p, ENVIRONMENT |-> e, DEBUG |-> d] :
        p \in ports, e \in environments, d \in debugs }

InitWith(envs, hosts) ==
    /\ environ \in envs
    /\ hostname \in hosts
    /\ now = 0
    /\ pc = "start"
    /\ app = [host |-> "", port |-> 0, debug |-> FALSE, bound |-> 0]
    /\ th = [t \in Threads |-> Idle]

Init ==
    InitWith(Environments(PortValues, EnvironmentValues, DebugValues), Hostnames)

----------------------------------------------------------------------------
(* The __main__ block.                                                     *)

\* The __main__ block with another default port than the views have.
MainPort_default_8000 ==
    IF environ["PORT"].set THEN PyInt(environ["PORT"].val)
    ELSE [ok |-> TRUE, val |-> 8000]

\* int(os.getenv('PORT', 5000)): the default is the integer itself.
MainPort ==
    IF environ["PORT"].set THEN PyInt(environ["PORT"].val)
    ELSE [ok |-> TRUE, val |-> 5000]

\* os.getenv('DEBUG', 'False').lower() == 'true'
MainDebug ==
    Lower(getenv("DEBUG", <<"F", "a", "l", "s", "e">>)) = <<"t", "r", "u", "e">>

\* The whole block.  int() raises ValueError on text that is no integer;
\* binding a port outside 0..65535 raises OverflowError; binding a port
\* that is in use, or that the process may not bind, raises OSError.  Each
\* ends the process.  Port 0 binds a port of the operating system's choice.
Main ==
    /\ pc = "start"
    /\ IF ~MainPort.ok
       THEN pc' = "ValueError" /\ app' = app
       ELSE IF MainPort.val \notin 0..65535
       THEN pc' = "OverflowError" /\ app' = app
       ELSE \/ /\ pc' = "listening"
               /\ \E b \in (IF MainPort.val = 0 THEN EphemeralPorts
                                                ELSE {MainPort.val}) :
                      app' = [host |-> "0.0.0.0", port |-> MainPort.val,
                              debug |-> MainDebug, bound |-> b]
            \/ pc' = "OSError" /\ app' = app
    /\ UNCHANGED <<environ, hostname, now, th>>

\* Time passes.
Tick ==
    /\ now < MaxTick
    /\ now' = now + 1
    /\ UNCHANGED <<environ, hostname, pc, app, th>>

----------------------------------------------------------------------------
(* Serving a request.  The development server handles each request in a    *)
(* thread of its own; a thread is at one of the calls of its view.         *)

Answer(t, response) ==
    [th[t] EXCEPT !.pc = "done", !.resp = response]

\* A request arrives and is routed.  No rule for the path, with its slashes
\* merged or not: NotFound.  A rule, but not for the method:
\* MethodNotAllowed.  A rule only once the slashes are merged: a redirect to
\* the merged path.  OPTIONS is answered by Flask itself.  The static view
\* finds no file: NotFound.  Otherwise the view of the rule is called.
Request(t, path, method) ==
    /\ pc = "listening"
    /\ th[t].pc \in {"idle", "done"}
    /\ LET endpoint == Match(path)
           arrived  ==
               [Idle EXCEPT !.path = path, !.method = method,
                            !.endpoint = endpoint,
                            !.afterFault = th[t].afterFault \/ th[t].exc]
       IN  th' = [th EXCEPT ![t] =
               IF endpoint = "" /\ Match(MergeSlashes(path)) = ""
               THEN [arrived EXCEPT !.pc = "done", !.resp = handle_http_exception(404)]
               ELSE IF method \notin RuleMethods
               THEN [arrived EXCEPT !.pc = "done", !.resp = handle_http_exception(405)]
               ELSE IF endpoint = ""
               THEN [arrived EXCEPT !.pc = "done", !.resp = handle_http_exception(308)]
               ELSE IF method = "OPTIONS"
               THEN [arrived EXCEPT !.pc = "done", !.resp = HtmlResponse(<<>>, 200)]
               ELSE IF endpoint = "static"
               THEN [arrived EXCEPT !.pc = "done", !.resp =
                        IF path[2] \in static_files
                        THEN HtmlResponse(<<path[2]>>, 200)
                        ELSE handle_http_exception(404)]
               ELSE [arrived EXCEPT !.pc =
                        CASE endpoint \in {"home", "info"} -> "gethostname"
                          [] endpoint = "health"           -> "now"
                          [] OTHER                         -> "return"]]
    /\ UNCHANGED <<environ, hostname, now, pc, app>>

\* socket.gethostname(), the first call of home and info: it returns the
\* hostname, or raises OSError when the system call fails.
GetHostname(t) ==
    /\ th[t].pc = "gethostname"
    /\ \/ th' = [th EXCEPT ![t].host = hostname, ![t].pc = "now"]
       \/ th' = [th EXCEPT ![t].exc = TRUE, ![t].pc = "raise"]
    /\ UNCHANGED <<environ, hostname, now, pc, app>>

\* datetime.now(), the next call of home and info and the first of health.
Now(t) ==
    /\ th[t].pc = "now"
    /\ th' = [th EXCEPT ![t].clock = now, ![t].pc = "return"]
    /\ UNCHANGED <<environ, hostname, now, pc, app>>

\* The views reading the clock again when they build the response.
View_clock_at_return(t) ==
    CASE th[t].endpoint = "home"   -> home(th[t].host, DateTime(now))
      [] th[t].endpoint = "health" -> health(DateTime(now))
      [] th[t].endpoint = "info"   -> info(th[t].host, DateTime(now))
      [] th[t].endpoint = "status" -> status

\* The value the view of thread t returns, from what the thread has read.
View(t) ==
    CASE th[t].endpoint = "home"   -> home(th[t].host, DateTime(th[t].clock))
      [] th[t].endpoint = "health" -> health(DateTime(th[t].clock))
      [] th[t].endpoint = "info"   -> info(th[t].host, DateTime(th[t].clock))
      [] th[t].endpoint = "status" -> status

\* The view reads the environment, builds its response and returns.
Return(t) ==
    /\ th[t].pc = "return"
    /\ th' = [th EXCEPT ![t] = Answer(t, View(t))]
    /\ UNCHANGED <<environ, hostname, now, pc, app>>

\* The exception of a view reaches Flask.handle_exception.
HandleException(t) ==
    /\ th[t].pc = "raise"
    /\ th' = [th EXCEPT ![t] = Answer(t, handle_exception(app.debug))]
    /\ UNCHANGED <<environ, hostname, now, pc, app>>

Serve(t) ==
    \/ \E path \in Paths, method \in Methods : Request(t, path, method)
    \/ GetHostname(t)
    \/ Now(t)
    \/ Return(t)
    \/ HandleException(t)

\* One request at a time, under every environment.
Next ==
    \/ Main
    \/ Tick
    \/ \E t \in OneThread : Serve(t)

Spec == Init /\ [][Next]_vars

\* Two requests at a time.
InitThreaded ==
    InitWith(Environments({Unset},
                          {Set(<<"q", "&", "a">>)},
                          {Unset, Set(<<"T", "r", "u", "e">>)}),
             {<<"w", "e", "b", "-", "1">>})

NextThreaded ==
    \/ Main
    \/ Tick
    \/ \E t \in Threads : Serve(t)

SpecThreaded == InitThreaded /\ [][NextThreaded]_vars

----------------------------------------------------------------------------
(* What a request was and what it was answered.                            *)

Done(t) == th[t].pc = "done"

\* Thread t holds the answer to `method path`.
Answered(t, path, method) ==
    Done(t) /\ th[t].path = path /\ th[t].method = method

\* The same, and the view returned (it did not raise).
Returned(t, path, method) == Answered(t, path, method) /\ ~th[t].exc

FourPaths ==
    { <<"">>, <<"api", "health">>, <<"api", "info">>, <<"api", "status">> }

\* The fixed JSON object of an error: error, message and a numeric status.
IsEnvelope(r, error, code) ==
    /\ r.mimetype = "application/json"
    /\ DOMAIN r.json = {"error", "message", "status"}
    /\ r.json.error = <<error>>
    /\ r.json.status = code

\* The text between the value tags that follow a label of the home page.
HasSlot(html, label) == \E i \in 1..Len(html) : html[i] = Label(label)

SlotValue(html, label) ==
    LET i == CHOOSE i \in 1..Len(html) : html[i] = Label(label)
        j == CHOOSE j \in (i + 2)..Len(html) :
                 /\ html[j] = SpanClose
                 /\ \A k \in (i + 2)..(j - 1) : html[k] # SpanClose
    IN  SubSeq(html, i + 2, j - 1)

\* The text a browser shows for HTML text: character references are read
\* back as the characters they stand for.
StartsWith(s, prefix) ==
    Len(s) >= Len(prefix) /\ SubSeq(s, 1, Len(prefix)) = prefix

Drop(s, n) == SubSeq(s, n + 1, Len(s))

RECURSIVE Unescape(_)
Unescape(s) ==
    IF s = <<>> THEN <<>>
    ELSE IF StartsWith(s, <<"&", "a", "m", "p", ";">>) THEN <<"&">> \o Unescape(Drop(s, 5))
    ELSE IF StartsWith(s, <<"&", "l", "t", ";">>) THEN <<"<">> \o Unescape(Drop(s, 4))
    ELSE IF StartsWith(s, <<"&", "g", "t", ";">>) THEN <<">">> \o Unescape(Drop(s, 4))
    ELSE IF StartsWith(s, <<"&", "#", "3", "9", ";">>) THEN <<"'">> \o Unescape(Drop(s, 5))
    ELSE IF StartsWith(s, <<"&", "#", "3", "4", ";">>) THEN <<"\"">> \o Unescape(Drop(s, 5))
    ELSE <<Head(s)>> \o Unescape(Tail(s))

\* What the home page shows after a label.
Shown(html, label) == Unescape(SlotValue(html, label))

AllDigits(s) == \A i \in 1..Len(s) : IsDigit(s[i])

\* Reading a timestamp back: YYYY-MM-DD, a separator, HH:MM:SS, and six
\* digits of fraction after a '.' when there are any.
TimestampShape(ts, sep, lengths) ==
    /\ Len(ts) \in lengths
    /\ ts[5] = "-" /\ ts[8] = "-" /\ ts[11] = sep /\ ts[14] = ":" /\ ts[17] = ":"
    /\ AllDigits(SubSeq(ts, 1, 4)) /\ AllDigits(SubSeq(ts, 6, 7))
    /\ AllDigits(SubSeq(ts, 9, 10)) /\ AllDigits(SubSeq(ts, 12, 13))
    /\ AllDigits(SubSeq(ts, 15, 16)) /\ AllDigits(SubSeq(ts, 18, 19))
    /\ Len(ts) > 19 => ts[20] = "." /\ AllDigits(SubSeq(ts, 21, 26))

TimestampFields(ts) ==
    [year        |-> DecimalValue(SubSeq(ts, 1, 4)),
     month       |-> DecimalValue(SubSeq(ts, 6, 7)),
     day         |-> DecimalValue(SubSeq(ts, 9, 10)),
     hour        |-> DecimalValue(SubSeq(ts, 12, 13)),
     minute      |-> DecimalValue(SubSeq(ts, 15, 16)),
     second      |-> DecimalValue(SubSeq(ts, 18, 19)),
     microsecond |-> IF Len(ts) > 19 THEN DecimalValue(SubSeq(ts, 21, 26)) ELSE 0]

\* ts is the ISO-8601 rendering of the datetime d.
IsIso8601Of(ts, d) ==
    TimestampShape(ts, "T", {19, 26}) /\ TimestampFields(ts) = d

----------------------------------------------------------------------------
(* The claims.                                                             *)

\* A path the rule /static/<path:filename> matches.
IsStaticPath(path) == Len(path) >= 2 /\ path[1] = "static" /\ path[2] # ""

\* C1 as stated: every request whose path is not one of '/', '/api/health',
\* '/api/info', '/api/status' is answered 404 with the JSON object
\* {error: "Not Found", message, status: 404}, whatever its method.
C1_Original ==
    \A t \in Threads :
        Done(t) /\ th[t].path \notin FourPaths =>
            /\ th[t].resp.status = 404
            /\ IsEnvelope(th[t].resp, "Not Found", 404)

\* The path of a rule of the application: one of the four routes or a path
\* under /static/.
IsRulePath(path) == path \in FourPaths \/ IsStaticPath(path)

\* C1 as amended: a request whose path matches no rule of the application
\* (the four routes and /static/<path:filename>), also with its repeated
\* slashes merged, is answered 404 with the Not Found object whatever its
\* method; so is GET or HEAD of a path under /static/; OPTIONS of a path
\* under /static/ is answered 200 and any other method 405; GET of a path
\* that is a rule's once its repeated slashes are merged is answered 308.
C1_UnmatchedPathIs404 ==
    \A t \in Threads :
        Done(t) =>
            /\ ~IsRulePath(th[t].path) /\ ~IsRulePath(MergeSlashes(th[t].path)) =>
                   /\ th[t].resp.status = 404
                   /\ IsEnvelope(th[t].resp, "Not Found", 404)
            /\ th[t].path = <<"api", "", "health">> /\ th[t].method = "GET" =>
                   th[t].resp.status = 308
            /\ IsStaticPath(th[t].path) /\ th[t].method \in {"GET", "HEAD"} =>
                   /\ th[t].resp.status = 404
                   /\ IsEnvelope(th[t].resp, "Not Found", 404)
            /\ IsStaticPath(th[t].path) /\ th[t].method \notin {"GET", "HEAD", "OPTIONS"} =>
                   th[t].resp.status = 405
            /\ IsStaticPath(th[t].path) /\ th[t].method = "OPTIONS" =>
                   th[t].resp.status = 200

\* POST /nonexistent answered 404, by a server started with debug on.
C1_Witness ==
    \E t \in Threads :
        /\ Answered(t, <<"nonexistent">>, "POST")
        /\ th[t].resp.status = 404
        /\ app.debug

\* C2 as stated: a request whose view raised is answered 500 with the JSON
\* object {error: "Internal Server Error", message, status: 500} and the
\* process goes on serving, under every startup configuration.
C2_Original ==
    \A t \in Threads :
        Done(t) /\ th[t].exc =>
            /\ th[t].resp.status = 500
            /\ IsEnvelope(th[t].resp, "Internal Server Error", 500)
            /\ pc = "listening"

\* C2 as amended: a request whose view raised is answered 500 and the
\* process goes on serving (the thread can take the next request); the
\* answer is the Internal Server Error object when the server was started
\* with debug off, and the debugger's HTML page, not that object, when it
\* was started with debug on (DEBUG is "true" in any letter case).
C2_FaultIs500 ==
    \A t \in Threads :
        Done(t) /\ th[t].exc =>
            /\ th[t].resp.status = 500
            /\ pc = "listening"
            /\ ENABLED Request(t, <<"api", "health">>, "GET")
            /\ ~app.debug => IsEnvelope(th[t].resp, "Internal Server Error", 500)
            /\ app.debug =>
                   /\ th[t].resp.mimetype = "text/html"
                   /\ th[t].resp.json = NoJson
            /\ app.debug <=>
                   /\ environ["DEBUG"].set
                   /\ environ["DEBUG"].val \in
                          {<<"t", "r", "u", "e">>, <<"T", "r", "u", "e">>}

\* A request answered 200 by a thread whose previous request raised, with
\* debug off.
C2_Witness ==
    \E t \in Threads :
        /\ Done(t) /\ th[t].afterFault /\ ~th[t].exc
        /\ th[t].resp.status = 200
        /\ ~app.debug

\* C3 as stated: every response has status 200, 404 or 500, and every
\* response that is not 200 is the JSON error object whose status field is
\* the HTTP status of the response.
C3_Original ==
    \A t \in Threads :
        Done(t) =>
            /\ th[t].resp.status \in {200, 404, 500}
            /\ th[t].resp.status # 200 =>
                   /\ th[t].resp.mimetype = "application/json"
                   /\ DOMAIN th[t].resp.json = {"error", "message", "status"}
                   /\ th[t].resp.json.status = th[t].resp.status

\* C3 as amended: every response has status 200, 308, 404, 405 or 500.  A
\* 404 is the Not Found object.  A 500 is the Internal Server Error object
\* with debug off and the debugger's page with debug on.  405 answers
\* exactly the requests to a path of a rule (also once its repeated slashes
\* are merged) with a method other than GET, HEAD and OPTIONS, and is
\* werkzeug's HTML page, not a JSON object; so is 308, which answers the
\* other requests to a path that is a rule's only once merged.
C3_ErrorKinds ==
    \A t \in Threads :
        Done(t) =>
            /\ th[t].resp.status \in {200, 308, 404, 405, 500}
            /\ th[t].resp.status = 404 => IsEnvelope(th[t].resp, "Not Found", 404)
            /\ th[t].resp.status = 500 =>
                   /\ th[t].exc
                   /\ IF app.debug
                      THEN th[t].resp.json = NoJson
                      ELSE IsEnvelope(th[t].resp, "Internal Server Error", 500)
            /\ th[t].resp.status = 405 <=>
                   /\ IsRulePath(th[t].path) \/ IsRulePath(MergeSlashes(th[t].path))
                   /\ th[t].method \notin {"GET", "HEAD", "OPTIONS"}
            /\ th[t].resp.status = 308 <=>
                   /\ ~IsRulePath(th[t].path) /\ IsRulePath(MergeSlashes(th[t].path))
                   /\ th[t].method \in {"GET", "HEAD", "OPTIONS"}
            /\ th[t].resp.status \in {308, 405} =>
                   /\ th[t].resp.mimetype = "text/html"
                   /\ th[t].resp.json = NoJson

C3_Witness ==
    \E t \in Threads :
        /\ Answered(t, <<"api", "status">>, "POST")
        /\ th[t].resp.status = 405

\* C4: GET /api/health is answered 200, whatever came before, with exactly
\* status "healthy", service "hng13-devops-stage1", version "1.0.0" and a
\* timestamp that is the ISO-8601 rendering of the clock value the request
\* read.
C4_HealthIsHealthy ==
    \A t \in Threads :
        Answered(t, <<"api", "health">>, "GET") =>
            /\ ~th[t].exc
            /\ th[t].resp.status = 200
            /\ th[t].resp.mimetype = "application/json"
            /\ DOMAIN th[t].resp.json = {"status", "timestamp", "service", "version"}
            /\ th[t].resp.json.status = <<"healthy">>
            /\ th[t].resp.json.service = <<"hng13-devops-stage1">>
            /\ th[t].resp.json.version = <<"1.0.0">>
            /\ th[t].clock \in 0..now
            /\ IsIso8601Of(th[t].resp.json.timestamp, DateTime(th[t].clock))

\* GET /api/health answered after a request of the thread raised, at a
\* clock value with a fraction of a second.
C4_Witness ==
    \E t \in Threads :
        /\ Answered(t, <<"api", "health">>, "GET")
        /\ th[t].afterFault
        /\ DateTime(th[t].clock).microsecond # 0

\* C5: GET /api/status is answered 200 with the JSON object of exactly the
\* two fields status "ok" and message "Application is running
\* successfully", under every environment, clock value and hostname.
C5_StatusIsOk ==
    \A t \in Threads :
        Answered(t, <<"api", "status">>, "GET") =>
            /\ th[t].resp.status = 200
            /\ th[t].resp.mimetype = "application/json"
            /\ DOMAIN th[t].resp.json = {"status", "message"}
            /\ th[t].resp.json.status = <<"ok">>
            /\ th[t].resp.json.message = <<"Application is running successfully">>

C5_Witness ==
    \E t \in Threads :
        /\ Answered(t, <<"api", "status">>, "GET")
        /\ environ["ENVIRONMENT"].set /\ environ["PORT"].set /\ environ["DEBUG"].set
        /\ now > 0
        /\ th[t].afterFault

PortText ==
    IF environ["PORT"].set THEN environ["PORT"].val ELSE <<"5", "0", "0", "0">>

EnvironmentText ==
    IF environ["ENVIRONMENT"].set THEN environ["ENVIRONMENT"].val
    ELSE <<"p", "r", "o", "d", "u", "c", "t", "i", "o", "n">>

\* The decimal spelling of a port in 1..65535: digits, no leading zero.
CanonicalPort(text) ==
    /\ text # <<>>
    /\ Len(text) <= 5
    /\ AllDigits(text)
    /\ text[1] # "0"
    /\ DecimalValue(text) \in 1..65535

\* C7 as stated: startup reaches the listening state for every value of
\* PORT (no value of PORT ends it); the server listens on all interfaces
\* on the port PORT names (5000 when unset), and GET / and GET /api/info
\* show that same port.
C7_Original ==
    /\ pc \notin {"ValueError", "OverflowError"}
    /\ pc = "listening" =>
           /\ app.host = "0.0.0.0"
           /\ Pad(app.bound, 1) = PortText
    /\ \A t \in Threads :
           /\ Returned(t, <<"">>, "GET") =>
                  Shown(th[t].resp.html, "Port:") = Pad(app.bound, 1)
           /\ Returned(t, <<"api", "info">>, "GET") =>
                  th[t].resp.json.port = Pad(app.bound, 1)

\* C7 as amended: with PORT unset, or set to the decimal spelling of a port
\* in 1..65535, no value of PORT ends startup, and a server that listens
\* does so on all interfaces on that port (5000 when unset), which GET /
\* and GET /api/info show.  Both always show the text of PORT as it is,
\* also when it spells the bound port otherwise (08080).  Text that is not
\* an integer ends startup with ValueError and a port outside 0..65535 with
\* OverflowError.
C7_PortBoundAndShown ==
    /\ pc # "start" /\ (environ["PORT"].set => CanonicalPort(environ["PORT"].val)) =>
           pc \in {"listening", "OSError"}
    /\ pc = "listening" =>
           /\ app.host = "0.0.0.0"
           /\ (environ["PORT"].set => CanonicalPort(environ["PORT"].val)) =>
                  Pad(app.bound, 1) = PortText
           /\ ~environ["PORT"].set => app.bound = 5000
           /\ environ["PORT"] = Set(<<"0", "8", "0", "8", "0">>) => app.bound = 8080
    /\ pc # "start" /\ environ["PORT"] \in {Set(<<"a", "b", "c">>), Set(<<>>)} =>
           pc = "ValueError"
    /\ pc # "start" /\ environ["PORT"] = Set(<<"7", "0", "0", "0", "0">>) =>
           pc = "OverflowError"
    /\ \A t \in Threads :
           /\ Returned(t, <<"">>, "GET") =>
                  Shown(th[t].resp.html, "Port:") = PortText
           /\ Returned(t, <<"api", "info">>, "GET") =>
                  th[t].resp.json.port = PortText

\* PORT=8080: the server listens on 8080 and the home page was served.
C7_Witness ==
    \E t \in Threads :
        /\ environ["PORT"] = Set(<<"8", "0", "8", "0">>)
        /\ app.bound = 8080
        /\ Returned(t, <<"">>, "GET")

\* C8: GET / and GET /api/info both report the value of ENVIRONMENT, and
\* "production" when it is unset: the home page shows it after the label
\* Environment:, /api/info has it as its field environment.
C8_EnvironmentReported ==
    \A t \in Threads :
        /\ Returned(t, <<"">>, "GET") =>
               /\ HasSlot(th[t].resp.html, "Environment:")
               /\ Shown(th[t].resp.html, "Environment:") = EnvironmentText
        /\ Returned(t, <<"api", "info">>, "GET") =>
               th[t].resp.json.environment = EnvironmentText

\* The home page served with ENVIRONMENT set to text HTML has to escape.
C8_Witness ==
    \E t \in Threads :
        /\ Returned(t, <<"">>, "GET")
        /\ environ["ENVIRONMENT"] = Set(<<"q", "&", "a">>)

C10_StepIsLocal ==
    th' # th =>
        /\ UNCHANGED <<environ, hostname, now, pc, app>>
        /\ Cardinality({t \in Threads : th'[t] # th[t]}) = 1

C10_SameInputsSameResponse ==
    \A t, u \in Threads :
        /\ Done(t) /\ Done(u)
        /\ th[t].path = th[u].path /\ th[t].method = th[u].method
        /\ th[t].host = th[u].host /\ th[t].clock = th[u].clock
        /\ th[t].exc = th[u].exc
        => th[t].resp = th[u].resp

====
